---- MODULE Spec2Model ----
(***************************************************************************)
(* Two chain-of-thought orchestrators over a text-completion service:      *)
(*   EnhancedCoT (src/llm.py)  parallel branches, self-rated consistency,  *)
(*                             selection, performance log, temperature     *)
(*                             adaptation, fallback completion;            *)
(*   CoT         (src/llm2.py) plan, chained steps, metrics file.          *)
(* The completion service (ollama) and the file system are the             *)
(* environment: every call may succeed or raise, every reply is drawn from *)
(* a small set.                                                            *)
(*                                                                         *)
(* Units.  Temperatures are integers in tenths (0.1 = 1).  Consistency     *)
(* scores are integers in sixtieths (0.5 = 30), so that the mean of one,   *)
(* two or three scores is again an integer.  Binary floating point         *)
(* rounding (0.8 - 0.1 = 0.7000000000000001) is not modelled.              *)
(***************************************************************************)
EXTENDS Integers, Sequences, FiniteSets, TLC

VARIABLES
    \* ---- EnhancedCoT instance (src/llm.py) ----
    num_branches,         \* self.num_branches
    temp_range,           \* self.temp_range, <<low, high>> in tenths
    performance_history,  \* self.performance_history
    e_pc,                 \* position of the one caller inside enhanced_cot
    e_prompt,             \* the prompt argument of the running invocation
    futures,              \* branch index -> state of its pool task: pending,
                          \* running, done, failed or cancelled
    thoughts,             \* generate_thought_branches' result
    consistency_scores,   \* the dict branch_i -> score, in insertion order
    final_response,       \* optimize_response's result
    e_calls,              \* completion calls issued by the invocation, in order
    e_exc,                \* what raised the exception the try block caught
    e_outcome,            \* how the last invocation ended
    e_result,             \* the value it returned
    \* ---- CoT instances sharing one history file (src/llm2.py) ----
    history_file,         \* the file at self.history_file
    fs,                   \* how the file system answers writes
    cot,                  \* per caller: its CoT instance's call of cot_main
    c_runs,               \* cot_main invocations started so far
    saved                 \* the _save_metrics calls completed, in order

e_vars == <<num_branches, temp_range, performance_history, e_pc, e_prompt,
            futures, thoughts, consistency_scores, final_response, e_calls,
            e_exc, e_outcome, e_result>>

c_vars == <<history_file, fs, cot, c_runs, saved>>

vars == <<e_vars, c_vars>>

----------------------------------------------------------------------------
(* Bounds and program constants *)

\* invocations of enhanced_cot that reach monitor_performance are capped
MaxHistory == 6

\* num_branches: int = 3
DefaultBranches == 3

\* len(self.performance_history) > 5 and performance_history[-5:]
HistoryThreshold == 5
HistoryWindow == 5

\* max(0.1, ...), max(0.3, ...), ... - 0.1 in tenths
LowFloor == 1
HighFloor == 3
TempStep == 1

\* np.mean(recent_scores) < 0.5 in sixtieths
MeanThreshold == 30

Prompts == {"p", "q"}

\* temperature_range: tuple = (0.1, 0.8)
DefaultRange == <<1, 8>>

\* the temperature ranges an instance is constructed with: 0 <= low <= high <= 1
TempGrid == {0, 2, 4, 8, 10}
AllRanges == {r \in TempGrid \X TempGrid : r[1] <= r[2]} \cup {DefaultRange}

\* (num_branches, temperature_range) arguments of the constructor
Configs == ({1} \X AllRanges) \cup (((0..DefaultBranches) \ {1}) \X {DefaultRange})

----------------------------------------------------------------------------
(* The completion service as seen by EnhancedCoT *)

\* the replies to the rating prompt: two numbers and a reply that is no number
ScoreResponses == {"0.4", "0.9", "fairly consistent"}

\* the replies to the rating prompt of an instance of n branches: a number
\* above 1 is among them too (for instances of one branch only, which keeps
\* the recorded means few)
RatingReplies(n) == IF n = 1 THEN ScoreResponses \cup {"1.5"} ELSE ScoreResponses

\* float(score['response']): defined on the numeric replies only
IsFloat(s) == s \in {"0.4", "0.9", "1.5"}
float(s) == CASE s = "0.4" -> 24
              [] s = "0.9" -> 54
              [] s = "1.5" -> 90

Digits == <<"0", "1", "2", "3", "4", "5", "6", "7", "8", "9">>

\* str(i) for 0 <= i <= 9
str(i) == Digits[i + 1]

\* the text the service returns to branch i's call: it names the branch
BranchText(i, prompt) == <<"thought", str(i), prompt>>

\* the text the service returns to the direct completion call
DirectText(prompt) == <<"answer", prompt>>

\* np.linspace(low, high, n)[i] as the fraction <<numerator, denominator>>
linspace(low, high, n, i) ==
    IF n = 1 THEN <<low, 1>>
    ELSE <<low * (n - 1) + i * (high - low), n - 1>>

\* ollama.generate(model, prompt=f"Think step by step:\n{prompt}", temperature=temp)
BranchCall(prompt, temp) ==
    [prompt |-> <<"Think step by step:\n", prompt>>, temperature |-> temp]

\* ollama.generate(model, prompt=f"Rate the logical consistency ...:\n{thought}")
RateCall(thought) ==
    [prompt |-> <<"Rate the logical consistency of this thought from 0-1:\n">> \o thought,
     temperature |-> <<>>]

\* a fallback that reuses the branch prompt
FallbackCall_prefixed(prompt) ==
    [prompt |-> <<"Think step by step:\n", prompt>>, temperature |-> <<>>]

\* ollama.generate(model, prompt=prompt)
FallbackCall(prompt) == [prompt |-> <<prompt>>, temperature |-> <<>>]

----------------------------------------------------------------------------
(* Pure helpers of EnhancedCoT *)

RECURSIVE SumSeq(_)
SumSeq(s) == IF s = <<>> THEN 0 ELSE Head(s) + SumSeq(Tail(s))

\* np.mean of a non-empty list (exact: the unit makes the quotient an integer)
np_mean(s) == SumSeq(s) \div Len(s)

\* a max() that lets a later equal item replace the earlier one
RECURSIVE MaxFrom_last(_, _, _)
MaxFrom_last(scores, k, best) ==
    IF k > Len(scores) THEN best
    ELSE MaxFrom_last(scores, k + 1, IF scores[k] >= scores[best] THEN k ELSE best)

\* max(items, key=score): Python keeps the first item and replaces it only by
\* a strictly greater one
RECURSIVE MaxFrom(_, _, _)
MaxFrom(scores, k, best) ==
    IF k > Len(scores) THEN best
    ELSE MaxFrom(scores, k + 1, IF scores[k] > scores[best] THEN k ELSE best)

\* best_branch_idx: the i of the key "branch_i" that max() returns
\* (position k of the dict holds branch_(k-1))
best_branch_idx(scores) == MaxFrom(scores, 2, 1) - 1

\* optimize_response for a non-empty score dict: thoughts[int(best_branch_idx)]
optimize_response(ths, scores) == ths[best_branch_idx(scores) + 1]

\* s[-n:]
LastN(s, n) == IF Len(s) <= n THEN s ELSE SubSeq(s, Len(s) - n + 1, Len(s))

Max(a, b) == IF a >= b THEN a ELSE b

\* the guard of dynamic_temperature_adjustment on the history length
EnoughHistory(history) == Len(history) > HistoryThreshold

\* an adjustment that subtracts without the max(0.1, ...), max(0.3, ...) floors
AdjustedRange_nofloor(history, range) ==
    IF EnoughHistory(history)
    THEN LET recent_scores ==
                 [k \in 1..HistoryWindow |->
                     LastN(history, HistoryWindow)[k].consistency_score]
         IN IF np_mean(recent_scores) < MeanThreshold
            THEN <<range[1] - TempStep, range[2] - TempStep>>
            ELSE range
    ELSE range

\* an adjustment that raises the upper bound instead
AdjustedRange_widen(history, range) ==
    IF EnoughHistory(history) THEN <<range[1], range[2] + TempStep>> ELSE range

\* the temp_range dynamic_temperature_adjustment leaves behind
AdjustedRange(history, range) ==
    IF EnoughHistory(history)
    THEN LET recent_scores ==
                 [k \in 1..HistoryWindow |->
                     LastN(history, HistoryWindow)[k].consistency_score]
         IN IF np_mean(recent_scores) < MeanThreshold
            THEN <<Max(LowFloor, range[1] - TempStep),
                   Max(HighFloor, range[2] - TempStep)>>
            ELSE range
    ELSE range

----------------------------------------------------------------------------
(* EnhancedCoT: construction and the steps of enhanced_cot *)

\* __init__: fields set from the arguments, empty history; no call is running
EInit ==
    /\ \E cfg \in Configs :
          /\ num_branches = cfg[1]
          /\ temp_range = cfg[2]
    /\ performance_history = <<>>
    /\ e_pc = "idle"
    /\ e_prompt = ""
    /\ futures = <<>>
    /\ thoughts = <<>>
    /\ consistency_scores = <<>>
    /\ final_response = <<>>
    /\ e_calls = <<>>
    /\ e_exc = "none"
    /\ e_outcome = "none"
    /\ e_result = <<>>

e_instance == <<num_branches, temp_range, performance_history>>

\* the slot of e_calls of a branch task that has not issued its call
NoCall == [prompt |-> <<>>, temperature |-> <<>>]

\* enhanced_cot is entered; generate_thought_branches computes the
\* temperatures and executor.map submits one get_branch task per temperature;
\* a submitted task is pending until a worker thread of the pool takes it
Invoke(prompt) ==
    /\ e_pc = "idle"
    /\ Len(performance_history) < MaxHistory
    /\ e_pc' = "generating"
    /\ e_prompt' = prompt
    /\ futures' = [k \in 1..num_branches |-> "pending"]
    /\ e_calls' = [k \in 1..num_branches |-> NoCall]
    /\ thoughts' = <<>>
    /\ consistency_scores' = <<>>
    /\ final_response' = <<>>
    /\ e_exc' = "none"
    /\ e_outcome' = "running"
    /\ e_result' = <<>>
    /\ UNCHANGED e_instance
    /\ UNCHANGED c_vars

\* a worker thread takes task k and get_branch issues its completion call
\* (slot k of e_calls: the branch calls are concurrent, the slots order them
\* by branch)
get_branch_starts(k) ==
    /\ e_pc = "generating"
    /\ k \in DOMAIN futures
    /\ futures[k] = "pending"
    /\ futures' = [futures EXCEPT ![k] = "running"]
    /\ e_calls' = [e_calls EXCEPT ![k] =
                     BranchCall(e_prompt,
                         linspace(temp_range[1], temp_range[2], num_branches, k - 1))]
    /\ UNCHANGED <<e_instance, e_pc, e_prompt, thoughts, consistency_scores,
                   final_response, e_exc, e_outcome, e_result>>
    /\ UNCHANGED c_vars

\* get_branch returns response['response'] in its worker thread
get_branch_returns(k) ==
    /\ e_pc \in {"generating", "joining"}
    /\ k \in DOMAIN futures
    /\ futures[k] = "running"
    /\ futures' = [futures EXCEPT ![k] = "done"]
    /\ UNCHANGED <<e_instance, e_pc, e_prompt, thoughts, consistency_scores,
                   final_response, e_calls, e_exc, e_outcome, e_result>>
    /\ UNCHANGED c_vars

\* the completion call of get_branch raises in its worker thread
get_branch_raises(k) ==
    /\ e_pc \in {"generating", "joining"}
    /\ k \in DOMAIN futures
    /\ futures[k] = "running"
    /\ futures' = [futures EXCEPT ![k] = "failed"]
    /\ UNCHANGED <<e_instance, e_pc, e_prompt, thoughts, consistency_scores,
                   final_response, e_calls, e_exc, e_outcome, e_result>>
    /\ UNCHANGED c_vars

\* list(executor.map(...)) takes the results in task order and re-raises the
\* exception of the first task that failed, once the tasks before it are done
BranchesRaise(tasks) ==
    \E j \in DOMAIN tasks :
        /\ tasks[j] = "failed"
        /\ \A k \in 1..(j - 1) : tasks[k] = "done"

\* the iterator of executor.map is closed by the exception: future.cancel()
\* on the futures it still holds cancels those that no worker has taken
cancel_pending(tasks) ==
    [k \in DOMAIN tasks |-> IF tasks[k] = "pending" THEN "cancelled" ELSE tasks[k]]

\* the exception leaves list(executor.map(...)) and reaches the exit of the
\* with block
executor_map_raises ==
    /\ e_pc = "generating"
    /\ BranchesRaise(futures)
    /\ futures' = cancel_pending(futures)
    /\ e_pc' = "joining"
    /\ UNCHANGED <<e_instance, e_prompt, thoughts, consistency_scores,
                   final_response, e_calls, e_exc, e_outcome, e_result>>
    /\ UNCHANGED c_vars

\* an exit of the with block that does not wait for the tasks
shutdown_nowait(tasks) == TRUE

\* the exit of the with block, executor.shutdown(wait=True), returns when no
\* task is left to run
shutdown_wait(tasks) == \A k \in DOMAIN tasks : tasks[k] \notin {"pending", "running"}

\* generate_thought_branches ends: list(executor.map(...)) has every result
\* and the with block is left, or the exception leaves the with block
generate_thought_branches_ends ==
    /\ \/ /\ e_pc = "generating"
          /\ \A k \in DOMAIN futures : futures[k] = "done"
          /\ shutdown_wait(futures)
          /\ e_pc' = "scoring"
          /\ thoughts' = [k \in DOMAIN futures |-> BranchText(k - 1, e_prompt)]
          /\ UNCHANGED e_exc
       \/ /\ e_pc = "joining"
          /\ shutdown_wait(futures)
          /\ e_pc' = "fallback"
          /\ e_exc' = "branch"
          /\ UNCHANGED thoughts
    /\ UNCHANGED <<e_instance, e_prompt, futures, consistency_scores,
                   final_response, e_calls, e_outcome, e_result>>
    /\ UNCHANGED c_vars

\* one iteration of verify_consistency's loop: the rating call for the next
\* thought; the call may raise, and float() raises on a reply that is no number
verify_consistency_step ==
    /\ e_pc = "scoring"
    /\ Len(consistency_scores) < Len(thoughts)
    /\ e_calls' = Append(e_calls, RateCall(thoughts[Len(consistency_scores) + 1]))
    /\ \/ /\ e_pc' = "fallback"
          /\ e_exc' = "rating"
          /\ UNCHANGED consistency_scores
       \/ \E r \in RatingReplies(num_branches) :
             IF IsFloat(r)
             THEN /\ consistency_scores' = Append(consistency_scores, float(r))
                  /\ UNCHANGED <<e_pc, e_exc>>
             ELSE /\ e_pc' = "fallback"
                  /\ e_exc' = "float"
                  /\ UNCHANGED consistency_scores
    /\ UNCHANGED <<e_instance, e_prompt, futures, thoughts, final_response,
                   e_outcome, e_result>>
    /\ UNCHANGED c_vars

\* verify_consistency returns; optimize_response picks the branch, or max()
\* raises ValueError on an empty dict
select_branch ==
    /\ e_pc = "scoring"
    /\ Len(consistency_scores) = Len(thoughts)
    /\ IF consistency_scores = <<>>
       THEN /\ e_pc' = "fallback"
            /\ e_exc' = "max"
            /\ UNCHANGED final_response
       ELSE /\ e_pc' = "recording"
            /\ final_response' = optimize_response(thoughts, consistency_scores)
            /\ UNCHANGED e_exc
    /\ UNCHANGED <<e_instance, e_prompt, futures, thoughts, consistency_scores,
                   e_calls, e_outcome, e_result>>
    /\ UNCHANGED c_vars

\* avg_consistency = np.mean(...); monitor_performance appends the record
\* (execution_time is wall-clock time and is left out of the record)
monitor_performance ==
    /\ e_pc = "recording"
    /\ performance_history' =
          Append(performance_history,
                 [consistency_score |-> np_mean(consistency_scores)])
    /\ e_pc' = "adapting"
    /\ UNCHANGED <<num_branches, temp_range, e_prompt, futures, thoughts,
                   consistency_scores, final_response, e_calls, e_exc, e_outcome,
                   e_result>>
    /\ UNCHANGED c_vars

\* dynamic_temperature_adjustment, then return final_response
dynamic_temperature_adjustment ==
    /\ e_pc = "adapting"
    /\ temp_range' = AdjustedRange(performance_history, temp_range)
    /\ e_pc' = "idle"
    /\ e_outcome' = "returned"
    /\ e_result' = final_response
    /\ UNCHANGED <<num_branches, performance_history, e_prompt, futures, thoughts,
                   consistency_scores, final_response, e_calls, e_exc>>
    /\ UNCHANGED c_vars

\* the except branch: ollama.generate(model, prompt=prompt)['response'] is
\* returned; the handler has no handler of its own, so a failure of this call
\* leaves enhanced_cot as an exception
fallback ==
    /\ e_pc = "fallback"
    /\ e_calls' = Append(e_calls, FallbackCall(e_prompt))
    /\ e_pc' = "idle"
    /\ \/ /\ e_outcome' = "returned"
          /\ e_result' = DirectText(e_prompt)
       \/ /\ e_outcome' = "raised"
          /\ UNCHANGED e_result
    /\ UNCHANGED <<e_instance, e_prompt, futures, thoughts, consistency_scores,
                   final_response, e_exc>>
    /\ UNCHANGED c_vars

\* an exception raised by np.mean or inside monitor_performance (such as
\* MemoryError from list.append) is raised inside the try block of
\* enhanced_cot: its except branch is taken
monitor_performance_raises ==
    /\ e_pc = "recording"
    /\ e_pc' = "fallback"
    /\ e_exc' = "record"
    /\ UNCHANGED <<e_instance, e_prompt, futures, thoughts, consistency_scores,
                   final_response, e_calls, e_outcome, e_result>>
    /\ UNCHANGED c_vars

\* an exception raised inside dynamic_temperature_adjustment, after the
\* record was appended, is raised inside the try block too
dynamic_temperature_adjustment_raises ==
    /\ e_pc = "adapting"
    /\ e_pc' = "fallback"
    /\ e_exc' = "adapt"
    /\ UNCHANGED <<e_instance, e_prompt, futures, thoughts, consistency_scores,
                   final_response, e_calls, e_outcome, e_result>>
    /\ UNCHANGED c_vars

ENext ==
    \/ \E prompt \in Prompts : Invoke(prompt)
    \/ \E k \in 1..DefaultBranches : get_branch_starts(k)
    \/ \E k \in 1..DefaultBranches : get_branch_returns(k)
    \/ \E k \in 1..DefaultBranches : get_branch_raises(k)
    \/ executor_map_raises
    \/ generate_thought_branches_ends
    \/ verify_consistency_step
    \/ select_branch
    \/ monitor_performance
    \/ dynamic_temperature_adjustment
    \/ fallback

----------------------------------------------------------------------------
(* Text: a string is the sequence of its characters.  The fixed instruction *)
(* sentences of the prompts, which nothing parses, are single elements.     *)

IsSpace(c) == c \in {" ", "\n", "\t"}

IsDigit(c) == c \in {"0", "1", "2", "3", "4", "5", "6", "7", "8", "9"}

DigitValue(c) == (CHOOSE k \in 1..10 : Digits[k] = c) - 1

\* str(n) for an integer n >= 0
RECURSIVE Decimal(_)
Decimal(n) == IF n < 10 THEN <<str(n)>> ELSE Decimal(n \div 10) \o <<str(n % 10)>>

\* pat in t, as the least position where pat starts (0: not found)
Find(t, pat) ==
    LET hits == {k \in 1..(Len(t) - Len(pat) + 1) :
                    SubSeq(t, k, k + Len(pat) - 1) = pat}
    IN IF hits = {} THEN 0 ELSE CHOOSE k \in hits : \A j \in hits : k <= j

Contains(t, pat) == Find(t, pat) # 0

\* t.split(sep)
RECURSIVE Split(_, _)
Split(t, sep) ==
    LET k == Find(t, sep)
    IN IF k = 0 THEN <<t>>
       ELSE <<SubSeq(t, 1, k - 1)>> \o Split(SubSeq(t, k + Len(sep), Len(t)), sep)

RECURSIVE lstrip(_)
lstrip(t) == IF t # <<>> /\ IsSpace(Head(t)) THEN lstrip(Tail(t)) ELSE t

RECURSIVE rstrip(_)
rstrip(t) ==
    IF t # <<>> /\ IsSpace(t[Len(t)]) THEN rstrip(SubSeq(t, 1, Len(t) - 1)) ELSE t

\* t.strip()
strip(t) == rstrip(lstrip(t))

\* len(t.split()): the maximal runs of characters that are not whitespace
WordCount(t) ==
    Cardinality({k \in 1..Len(t) :
                    /\ ~IsSpace(t[k])
                    /\ (k = 1 \/ IsSpace(t[k - 1]))})

\* int(t) succeeds: an optional sign and at least one digit
IsInt(t) ==
    LET d == IF t # <<>> /\ Head(t) \in {"-", "+"} THEN Tail(t) ELSE t
    IN d # <<>> /\ \A k \in 1..Len(d) : IsDigit(d[k])

RECURSIVE DigitsValue(_)
DigitsValue(d) ==
    IF d = <<>> THEN 0
    ELSE 10 * DigitsValue(SubSeq(d, 1, Len(d) - 1)) + DigitValue(d[Len(d)])

\* int(t) where it succeeds
int(t) ==
    IF Head(t) = "-" THEN 0 - DigitsValue(Tail(t))
    ELSE IF Head(t) = "+" THEN DigitsValue(Tail(t))
    ELSE DigitsValue(t)

----------------------------------------------------------------------------
(* CoT.analyze_complexity: parsing the plan response *)

STEPS == <<"S", "T", "E", "P", "S", ":">>

\* response.split('STEPS:')[1] raises IndexError without the marker
HasHeader(response) == Len(Split(response, STEPS)) >= 2

\* response.split('STEPS:')[1].split('\n')[0].strip()
CountText(response) == strip(Split(Split(response, STEPS)[2], <<"\n">>)[1])

\* analyze_complexity raises: no marker (IndexError) or int() fails (ValueError)
PlanRaises(response) == ~HasHeader(response) \/ ~IsInt(CountText(response))

steps_count(response) == int(CountText(response))

\* any(str(i) in s for i in range(steps_count))
MentionsIndex(s, count) == \E i \in 0..(count - 1) : Contains(s, Decimal(i))

\* [s.strip() for s in response.split('\n') if s.strip() and any(...)]
RECURSIVE KeepSteps(_, _)
KeepSteps(lines, count) ==
    IF lines = <<>> THEN <<>>
    ELSE (IF strip(Head(lines)) # <<>> /\ MentionsIndex(Head(lines), count)
          THEN <<strip(Head(lines))>> ELSE <<>>)
         \o KeepSteps(Tail(lines), count)

steps(response) == KeepSteps(Split(response, <<"\n">>), steps_count(response))

\* the plan responses the service gives
Plan1 == STEPS \o <<" ", "1", "\n", "1", ".", " ", "a">>
Plan2 == STEPS \o <<" ", "2", "\n", "1", ".", " ", "a", "\n", "2", ".", " ", "b">>
Plan3 == STEPS \o <<" ", "3", "\n", "1", ".", " ", "a", "\n", "2", ".", " ", "b",
                    "\n", "3", ".", " ", "c">>
PlanNoHeader == <<"1", ".", " ", "a", "\n", "2", ".", " ", "b">>
PlanBadCount == STEPS \o <<" ", "t", "w", "o", "\n", "1", ".", " ", "a">>
PlanZero == STEPS \o <<" ", "0", "\n", "1", ".", " ", "a">>
PlanSeven == STEPS \o <<" ", "7", "\n", "1", ".", " ", "a">>
PlanShort == STEPS \o <<" ", "3", "\n", "1", ".", " ", "a">>

PlanResponses ==
    {Plan1, Plan2, Plan3, PlanNoHeader, PlanBadCount, PlanZero, PlanSeven, PlanShort}

----------------------------------------------------------------------------
(* CoT.generate_response: the prompt of a step and its result *)

\* temperature: float = 0.7
DefaultTemperature == 7

\* an instruction text that never carries the previous steps
Context_fresh(step_num, total_steps, previous_response) ==
    <<"You have created a plan to respond more accurately and productively, As per the plan start elaborate the step ">>
    \o Decimal(step_num) \o <<"/">> \o Decimal(total_steps)
    \o <<" in not more than 100 words:">>

\* the instruction text before the stage: with or without the previous steps
Context(step_num, total_steps, previous_response) ==
    IF previous_response # <<>>
    THEN <<"As per your plan of reponse, continue the response by refering to your previous steps:\n">>
         \o previous_response
         \o <<"\n\nNow address step ">> \o Decimal(step_num) \o <<"/">>
         \o Decimal(total_steps) \o <<" in NOT more than 100 words:">>
    ELSE <<"You have created a plan to respond more accurately and productively, As per the plan start elaborate the step ">>
         \o Decimal(step_num) \o <<"/">> \o Decimal(total_steps)
         \o <<" in not more than 100 words:">>

\* ollama.chat(model, messages=[{content: f"{context}\n{prompt}"}], stream=True,
\*             options={'temperature': self.temperature})
StepCall(stage, step_num, total_steps, previous_response) ==
    [api |-> "chat",
     content |-> Context(step_num, total_steps, previous_response)
                    \o <<"\n">> \o stage,
     stream |-> TRUE,
     temperature |-> <<DefaultTemperature>>]

\* f"\nStep {step_num}/{total_steps}:\n"
StepMarker(step_num, total_steps) ==
    <<"\n", "S", "t", "e", "p", " ">> \o Decimal(step_num) \o <<"/">>
    \o Decimal(total_steps) \o <<":", "\n">>

\* the chunk streams the service gives for a step
ChunkStreams == {<<<<"o", "k">>>>, <<<<"n", "o">>, <<" ", "w", "a", "y">>>>}

\* step_response += chunk_text for every chunk of the stream
RECURSIVE Concat(_)
Concat(chunks) == IF chunks = <<>> THEN <<>> ELSE Head(chunks) \o Concat(Tail(chunks))

\* ollama.chat(model, messages=[{content: <instructions> + prompt}])
PlanCall(prompt) ==
    [api |-> "chat",
     content |-> <<"Analyze the complexity of this query and: ... Query: ">> \o <<prompt>>,
     stream |-> FALSE,
     temperature |-> <<>>]

----------------------------------------------------------------------------
(* The history file: json.dumps / json.loads over a token text *)

LBracket == [tok |-> "["]
RBracket == [tok |-> "]"]

\* json.dumps(data, indent=2) of a list of metrics objects
dumps(data) == <<LBracket>> \o data \o <<RBracket>>

\* json.loads(text) succeeds: a complete list of objects
loads_ok(text) ==
    /\ Len(text) >= 2
    /\ text[1] = LBracket
    /\ text[Len(text)] = RBracket
    /\ \A k \in 2..(Len(text) - 1) : text[k] \notin {LBracket, RBracket}

\* json.loads(text) where it succeeds
loads(text) == SubSeq(text, 2, Len(text) - 1)

NoFile == [exists |-> FALSE, text |-> <<>>]
File(text) == [exists |-> TRUE, text |-> text]

\* a record left in the file by an earlier program run
OldRecord == [prompt |-> "old", num_steps |-> 1, total_tokens |-> 0]

\* the file before any instance is constructed: absent, zero bytes long,
\* an empty list, or a list with an earlier record
InitialFiles == {NoFile, File(<<>>), File(dumps(<<>>)), File(dumps(<<OldRecord>>))}

\* writes succeed ("ok"), fail when the file is opened ("readonly"), or fail
\* after the file was opened and truncated ("full")
FileSystems == {"ok", "readonly", "full"}

\* what Path.write_text(text) can leave in the file, and whether it raises
WriteOutcomes(file, text) ==
    CASE fs = "ok" -> {[file |-> File(text), raised |-> FALSE]}
      [] fs = "readonly" -> {[file |-> file, raised |-> TRUE]}
      [] fs = "full" ->
            {[file |-> File(SubSeq(text, 1, k)), raised |-> TRUE] :
                k \in 0..(Len(text) - 1)}

----------------------------------------------------------------------------
(* CoT: construction and the steps of cot_main *)

\* invocations of cot_main are capped
MaxRuns == 2

Procs == {"a", "b"}

CPrompts == {"q"}

None == [is_none |-> TRUE, text |-> <<>>]
Text(t) == [is_none |-> FALSE, text |-> t]

NoMetrics == [prompt |-> "", num_steps |-> 0, total_tokens |-> 0]

\* the local state of a caller that is not inside cot_main
Frame(pc) ==
    [pc |-> pc, prompt |-> "", num_steps |-> 0, stages |-> <<>>,
     full_response |-> <<>>, done |-> 0, metrics |-> NoMetrics, data |-> <<>>,
     calls |-> <<>>, errors |-> <<>>, plan |-> <<>>, result |-> None,
     outputs |-> <<>>]

CInit ==
    /\ history_file \in InitialFiles
    /\ fs \in FileSystems
    /\ cot = [p \in Procs |-> Frame("new")]
    /\ c_runs = 0
    /\ saved = <<>>

\* no other caller is inside cot_main
Exclusive(p) ==
    \A q \in Procs \ {p} : cot[q].pc \in {"new", "failed", "idle"}

\* __init__ with _ensure_history_file: an absent file is written as '[]';
\* when that write raises, so does the constructor
Construct(p) ==
    /\ cot[p].pc = "new"
    /\ IF history_file.exists
       THEN /\ cot' = [cot EXCEPT ![p] = Frame("idle")]
            /\ UNCHANGED history_file
       ELSE \E w \in WriteOutcomes(history_file, dumps(<<>>)) :
               /\ history_file' = w.file
               /\ cot' = [cot EXCEPT ![p] =
                            Frame(IF w.raised THEN "failed" ELSE "idle")]
    /\ UNCHANGED <<fs, c_runs, saved>>
    /\ UNCHANGED e_vars

\* cot_main is entered and analyze_complexity issues the planning call
cot_main(p, prompt) ==
    /\ cot[p].pc = "idle"
    /\ c_runs < MaxRuns
    /\ c_runs' = c_runs + 1
    /\ cot' = [cot EXCEPT ![p] =
                 [Frame("planning") EXCEPT !.prompt = prompt,
                                           !.calls = <<PlanCall(prompt)>>]]
    /\ UNCHANGED <<history_file, fs, saved>>
    /\ UNCHANGED e_vars

\* a handler that returns the empty text instead of None
cot_main_except_empty(frame) ==
    [frame EXCEPT !.pc = "returned",
                  !.errors = Append(@, "Error in cot_main"),
                  !.result = Text(<<>>)]

\* except Exception in cot_main: print the error, return None
cot_main_except(frame) ==
    [frame EXCEPT !.pc = "returned",
                  !.errors = Append(@, "Error in cot_main"),
                  !.result = None]

\* analyze_complexity ends: the call raises, or the response is parsed
\* (raising on a malformed one) into num_steps and stages
analyze_complexity(p) ==
    /\ cot[p].pc = "planning"
    /\ \/ cot' = [cot EXCEPT ![p] = cot_main_except(@)]
       \/ \E response \in PlanResponses :
             cot' = [cot EXCEPT ![p] =
                       IF PlanRaises(response)
                       THEN cot_main_except([@ EXCEPT !.plan = response])
                       ELSE [@ EXCEPT !.pc = "steps",
                                      !.plan = response,
                                      !.num_steps = steps_count(response),
                                      !.stages = steps(response)]]
    /\ UNCHANGED <<history_file, fs, c_runs, saved>>
    /\ UNCHANGED e_vars

\* a loop in which a failed step ends cot_main through its handler
stage_done_aborts(frame, i, call, stage_resp) ==
    IF stage_resp = <<>>
    THEN cot_main_except([frame EXCEPT !.calls = Append(@, call)])
    ELSE [frame EXCEPT !.done = i,
                       !.calls = Append(@, call),
                       !.outputs = Append(@, stage_resp),
                       !.full_response = @ \o stage_resp \o <<"\n">>]

\* the frame after iteration i: generate_response printed "Error in step"
\* and returned "" when the call or the stream raised;
\* full_response += f"{stage_resp}\n" (outputs lists every stage_resp)
stage_done(frame, i, call, stage_resp) ==
    [frame EXCEPT !.done = i,
                  !.calls = Append(@, call),
                  !.errors = IF stage_resp = <<>>
                             THEN Append(@, "Error in step") ELSE @,
                  !.outputs = Append(@, stage_resp),
                  !.full_response = @ \o stage_resp \o <<"\n">>]

\* one iteration of the loop over enumerate(stages, 1): generate_response
\* returns the marker and the chunks, or "" when the call or the stream raises
generate_response(p) ==
    /\ cot[p].pc = "steps"
    /\ cot[p].done < Len(cot[p].stages)
    /\ LET f == cot[p]
           i == f.done + 1
           call == StepCall(f.stages[i], i, f.num_steps, f.full_response)
       IN \E stage_resp \in
                {<<>>} \cup {StepMarker(i, f.num_steps) \o Concat(chunks) :
                                chunks \in ChunkStreams} :
             cot' = [cot EXCEPT ![p] = stage_done(f, i, call, stage_resp)]
    /\ UNCHANGED <<history_file, fs, c_runs, saved>>
    /\ UNCHANGED e_vars

\* the loop is over: the metrics are built and _save_metrics is called
\* (timestamp and time_taken are clock readings and are left out)
build_metrics(p) ==
    /\ cot[p].pc = "steps"
    /\ cot[p].done = Len(cot[p].stages)
    /\ LET f == cot[p]
       IN cot' = [cot EXCEPT ![p] =
                    [f EXCEPT !.pc = "save_read",
                              !.metrics = [prompt |-> f.prompt,
                                           num_steps |-> f.num_steps,
                                           total_tokens |-> WordCount(f.full_response)]]]
    /\ UNCHANGED <<history_file, fs, c_runs, saved>>
    /\ UNCHANGED e_vars

\* return full_response, after _save_metrics
cot_main_returns(frame) ==
    [frame EXCEPT !.pc = "returned", !.result = Text(frame.full_response)]

\* a _save_metrics without its try: the error reaches cot_main's handler
save_metrics_propagates(frame) == cot_main_except(frame)

\* except Exception in _save_metrics: print the error and return normally
save_metrics_except(frame) ==
    cot_main_returns([frame EXCEPT !.errors = Append(@, "Error saving metrics")])

\* a save that writes the new record alone
appended_overwrite(data, metrics) == <<metrics>>

\* data.append(metrics)
appended(data, metrics) == Append(data, metrics)

\* _save_metrics, first half: data = json.loads(read_text()) if exists() else []
save_metrics_read(p) ==
    /\ cot[p].pc = "save_read"
    /\ IF history_file.exists /\ ~loads_ok(history_file.text)
       THEN /\ cot' = [cot EXCEPT ![p] = save_metrics_except(@)]
            /\ saved' = Append(saved, [metrics |-> cot[p].metrics, ok |-> FALSE])
       ELSE /\ cot' = [cot EXCEPT ![p] =
                         [@ EXCEPT !.pc = "save_write",
                                   !.data = IF history_file.exists
                                            THEN loads(history_file.text)
                                            ELSE <<>>]]
            /\ UNCHANGED saved
    /\ UNCHANGED <<history_file, fs, c_runs>>
    /\ UNCHANGED e_vars

\* _save_metrics, second half: data.append(metrics); write_text(json.dumps(data))
save_metrics_write(p) ==
    /\ cot[p].pc = "save_write"
    /\ \E w \in WriteOutcomes(history_file,
                              dumps(appended(cot[p].data, cot[p].metrics))) :
          /\ history_file' = w.file
          /\ cot' = [cot EXCEPT ![p] =
                       IF w.raised THEN save_metrics_except(@)
                       ELSE cot_main_returns(@)]
          /\ saved' = Append(saved, [metrics |-> cot[p].metrics, ok |-> ~w.raised])
    /\ UNCHANGED <<fs, c_runs>>
    /\ UNCHANGED e_vars

\* the caller has the result; its frame of cot_main is gone
release(p) ==
    /\ cot[p].pc = "returned"
    /\ cot' = [cot EXCEPT ![p] = Frame("idle")]
    /\ UNCHANGED <<history_file, fs, c_runs, saved>>
    /\ UNCHANGED e_vars

\* callers that run one after the other
CNext ==
    \E p \in Procs :
        \/ Exclusive(p) /\ Construct(p)
        \/ \E prompt \in CPrompts : Exclusive(p) /\ cot_main(p, prompt)
        \/ analyze_complexity(p)
        \/ generate_response(p)
        \/ build_metrics(p)
        \/ save_metrics_read(p)
        \/ save_metrics_write(p)
        \/ release(p)

\* callers that run concurrently, each step of one interleaved with the others'
CNextConcurrent ==
    \E p \in Procs :
        \/ Construct(p)
        \/ \E prompt \in CPrompts : cot_main(p, prompt)
        \/ analyze_complexity(p)
        \/ generate_response(p)
        \/ build_metrics(p)
        \/ save_metrics_read(p)
        \/ save_metrics_write(p)
        \/ release(p)

----------------------------------------------------------------------------
(* Specifications *)

\* no CoT instance exists
CQuiet ==
    /\ history_file = NoFile
    /\ fs = "ok"
    /\ cot = [p \in Procs |-> Frame("new")]
    /\ c_runs = 0
    /\ saved = <<>>

\* one EnhancedCoT instance with the default arguments, never called
EQuiet ==
    /\ num_branches = DefaultBranches
    /\ temp_range = DefaultRange
    /\ performance_history = <<>>
    /\ e_pc = "idle"
    /\ e_prompt = ""
    /\ futures = <<>>
    /\ thoughts = <<>>
    /\ consistency_scores = <<>>
    /\ final_response = <<>>
    /\ e_calls = <<>>
    /\ e_exc = "none"
    /\ e_outcome = "none"
    /\ e_result = <<>>

Init == EInit /\ CQuiet

Next == ENext

InitCoT == EQuiet /\ CInit

NextCoT == CNext

NextCoTConcurrent == CNextConcurrent

\* CoT with callers one after the other
SpecCoT == InitCoT /\ [][NextCoT]_vars

\* CoT with concurrent callers
SpecCoTConcurrent == InitCoT /\ [][NextCoTConcurrent]_vars

\* EnhancedCoT under any behaviour of the completion service
Spec == Init /\ [][Next]_vars

\* EnhancedCoT where the bookkeeping after the selection may raise as well
NextFaults ==
    \/ ENext
    \/ monitor_performance_raises
    \/ dynamic_temperature_adjustment_raises

SpecFaults == Init /\ [][NextFaults]_vars

----------------------------------------------------------------------------
(* Properties of EnhancedCoT, stated for Spec *)

\* positions in e_calls of the completion calls whose prompt has no prefix
DirectCalls == {k \in DOMAIN e_calls : Len(e_calls[k].prompt) = 1}

\* C1: every failure of branch generation, scoring or selection moves
\* enhanced_cot to the except branch, which issues exactly one direct
\* completion call, with the raw prompt and no temperature, and returns the
\* text of that call; no direct call is issued on any other path.
C1_FallbackOnFailure ==
    /\ e_exc \in {"none", "branch", "rating", "float", "max"}
    /\ e_exc # "none" => e_pc \in {"fallback", "idle"}
    /\ (e_exc = "none" \/ e_pc = "fallback") => DirectCalls = {}
    /\ (e_exc # "none" /\ e_pc = "idle") =>
          /\ DirectCalls = {Len(e_calls)}
          /\ e_calls[Len(e_calls)] = [prompt |-> <<e_prompt>>, temperature |-> <<>>]
          /\ e_outcome = "returned" => e_result = DirectText(e_prompt)

\* a rating reply that is no number was caught and the fallback text returned
C1_Witness ==
    /\ e_pc = "idle"
    /\ e_exc = "float"
    /\ e_outcome = "returned"
    /\ e_result = DirectText(e_prompt)
    /\ Len(e_calls) = num_branches + 2

\* C2: no exception ever leaves enhanced_cot, whatever calls fail.
C2_NoExceptionEscapes == e_outcome # "raised"

\* generate_thought_branches has returned or raised in the current invocation
GenerationOver ==
    /\ e_outcome # "none"
    /\ e_pc \notin {"generating", "joining"}
    /\ num_branches >= 1

\* C4: generate_thought_branches drops the failed branches: with at least one
\* successful call it returns between 1 and N branches (the successful ones),
\* and it fails only when all N calls fail.
C4_FailedBranchesDropped ==
    GenerationOver =>
        IF \E k \in DOMAIN futures : futures[k] = "done"
        THEN /\ e_exc # "branch"
             /\ Len(thoughts) \in 1..num_branches
             /\ Len(thoughts) = Cardinality({k \in DOMAIN futures : futures[k] = "done"})
        ELSE e_exc = "branch"

\* C5: the selected text is that of a branch with the maximal score, and of
\* the lowest-indexed one among those with the maximal score.
C5_SelectsFirstMaximum ==
    final_response # <<>> =>
        \E b \in DOMAIN consistency_scores :
            /\ final_response = thoughts[b]
            /\ \A k \in DOMAIN consistency_scores :
                  consistency_scores[k] <= consistency_scores[b]
            /\ \A k \in 1..(b - 1) : consistency_scores[k] < consistency_scores[b]

\* scores {0: 0.4, 1: 0.9, 2: 0.9} selected branch 1
C5_Witness ==
    /\ consistency_scores = <<24, 54, 54>>
    /\ final_response = BranchText(1, e_prompt)
    /\ final_response = thoughts[2]

\* the range with both bounds lowered by 0.1, subject to the floors
Lowered(range) ==
    <<Max(LowFloor, range[1] - TempStep), Max(HighFloor, range[2] - TempStep)>>

\* C6: adaptation is active as soon as the log holds 5 records: every
\* adaptation step with log length >= 5 lowers both bounds (subject to the
\* floors) iff the mean of the latest 5 consistency scores is below 0.5.
C6_AdaptsFromFiveRecords ==
    [][(e_pc = "adapting" /\ e_pc' = "idle"
            /\ Len(performance_history) >= HistoryWindow) =>
          temp_range' =
             IF np_mean([k \in 1..HistoryWindow |->
                           LastN(performance_history, HistoryWindow)[k].consistency_score])
                  < MeanThreshold
             THEN Lowered(temp_range)
             ELSE temp_range]_vars

\* C7: in every reachable state low <= high, low >= 0.1 and high >= 0.3.
C7_RangeAboveFloors ==
    /\ temp_range[1] <= temp_range[2]
    /\ temp_range[1] >= LowFloor
    /\ temp_range[2] >= HighFloor

\* C7 (amended): low <= high in every reachable state, and every change of the
\* range leaves low >= 0.1 and high >= 0.3.
C7_FloorsAfterAdaptation ==
    /\ [](temp_range[1] <= temp_range[2])
    /\ [][temp_range' # temp_range =>
            (temp_range'[1] >= LowFloor /\ temp_range'[2] >= HighFloor)]_vars

\* an adaptation raised a range constructed below the floors onto them
C7_Witness ==
    /\ e_pc = "idle"
    /\ e_outcome = "returned"
    /\ Len(performance_history) > HistoryThreshold
    /\ temp_range = <<LowFloor, HighFloor>>

----------------------------------------------------------------------------
(* Properties of CoT, stated for SpecCoT and SpecCoTConcurrent *)

InSeq(x, s) == \E k \in DOMAIN s : s[k] = x

\* the Planning stage of the frame failed: the planning call raised, or the
\* response has no STEPS: marker or no integer after it
PlanningFailed(f) == f.plan = <<>> \/ PlanRaises(f.plan)

\* a direct completion call with the raw prompt
DirectCall(prompt) ==
    [api |-> "chat", content |-> <<prompt>>, stream |-> FALSE, temperature |-> <<>>]

Records(file) ==
    IF file.exists /\ loads_ok(file.text) THEN loads(file.text) ELSE <<>>

\* the records of a list that this run's callers appended
NewRecords(records) == SelectSeq(records, LAMBDA r : r # OldRecord)

SavedMetrics == [k \in DOMAIN saved |-> saved[k].metrics]

\* C8: with writes that succeed, after k sequential _save_metrics calls with
\* records R1..Rk the file reads back as exactly R1..Rk, in order (after
\* whatever it held before), whatever file the run started from.
C8_RoundTrip ==
    (fs = "ok" /\ saved # <<>>) =>
        /\ history_file.exists
        /\ loads_ok(history_file.text)
        /\ NewRecords(loads(history_file.text)) = SavedMetrics

\* C8 (amended): the same, for a run that starts from an absent file or a
\* file holding a list, not from a file of zero bytes; and every
\* _save_metrics call that ends without an error leaves the records the file
\* held, unchanged and in order, followed by the new record.
C8_RoundTripFromList ==
    /\ []((fs = "ok" /\ history_file # File(<<>>) /\ saved # <<>>) =>
            /\ history_file.exists
            /\ loads_ok(history_file.text)
            /\ NewRecords(loads(history_file.text)) = SavedMetrics
            /\ \A k \in DOMAIN saved : saved[k].ok)
    /\ [][\A p \in Procs :
            (cot[p].pc = "save_write" /\ cot'[p].pc = "returned"
                /\ cot'[p].errors = cot[p].errors) =>
               /\ history_file'.exists
               /\ loads_ok(history_file'.text)
               /\ loads(history_file'.text) =
                     Append(Records(history_file), cot[p].metrics)]_vars

\* two saves after an earlier record: the file holds all three, in order
C8_Witness ==
    /\ fs = "ok"
    /\ Len(saved) = 2
    /\ history_file =
          File(dumps(<<OldRecord, saved[1].metrics, saved[2].metrics>>))

\* C9: under concurrent callers no update is lost: the file holds, besides
\* what it held before, one record for every _save_metrics call that ended
\* without an error.
C9_NoLostUpdate ==
    (fs = "ok" /\ history_file.exists /\ loads_ok(history_file.text)) =>
        Len(NewRecords(loads(history_file.text)))
            = Cardinality({k \in DOMAIN saved : saved[k].ok})

\* C10: when _save_metrics fails, cot_main still returns the combined step
\* text, and no error reaches its caller or its own handler.
C10_PersistenceFailureAbsorbed ==
    \A p \in Procs :
        (cot[p].pc = "returned" /\ cot[p].metrics # NoMetrics) =>
            /\ cot[p].result = Text(cot[p].full_response)
            /\ ~InSeq("Error in cot_main", cot[p].errors)

\* a write that failed half way, after a step that produced text
C10_Witness ==
    \E p \in Procs :
        /\ cot[p].pc = "returned"
        /\ fs = "full"
        /\ InSeq("Error saving metrics", cot[p].errors)
        /\ cot[p].metrics.total_tokens > 0
        /\ cot[p].result = Text(cot[p].full_response)


\* the lines of a plan response below its header line
NumberedLines(response) == Tail(Split(response, <<"\n">>))

\* the plan responses with a count n and the lines numbered 1..n
WellFormedPlans == {Plan1, Plan2, Plan3}

\* the step counts a plan may declare
PlanRange == 1..5

\* C11: for a well-formed plan response, declaring a count n in 1..5 followed
\* by lines numbered 1..n, analyze_complexity returns stepCount = n and steps
\* equal to exactly those n lines, in order.
C11_WellFormedPlanParsed ==
    \A p \in Procs :
        (cot[p].pc = "steps" /\ cot[p].plan \in WellFormedPlans) =>
            /\ cot[p].num_steps = Len(NumberedLines(cot[p].plan))
            /\ cot[p].stages = NumberedLines(cot[p].plan)

\* C12: analyze_complexity fails whenever the response has no STEPS: header,
\* the count is not an integer in 1..5, or fewer numbered lines follow than
\* were declared; so every plan that reaches the step loop has a step count
\* in 1..5 and exactly that many steps.
C12_PlanValidated ==
    \A p \in Procs :
        cot[p].pc = "steps" =>
            /\ cot[p].num_steps \in PlanRange
            /\ Len(NumberedLines(cot[p].plan)) >= cot[p].num_steps
            /\ Len(cot[p].stages) = cot[p].num_steps

\* the text that += builds from the step results: each followed by "\n"
RECURSIVE Joined(_)
Joined(outs) ==
    IF outs = <<>> THEN <<>> ELSE Head(outs) \o <<"\n">> \o Joined(Tail(outs))

\* the sequence t ends with the sequence tail
EndsWith(t, tail) ==
    /\ Len(t) >= Len(tail)
    /\ SubSeq(t, Len(t) - Len(tail) + 1, Len(t)) = tail

C14_FailedStepAbsorbed ==
    \A p \in Procs :
        LET f == cot[p]
        IN (f.pc = "returned" /\ ~PlanningFailed(f)) =>
              /\ f.done = Len(f.stages)
              /\ Len(f.calls) = 1 + Len(f.stages)
              /\ \A k \in 1..Len(f.stages) :
                    /\ EndsWith(f.calls[k + 1].content, <<"\n">> \o f.stages[k])
                    /\ f.outputs[k] = <<>> \/ Len(f.outputs[k]) > Len(StepMarker(k, f.num_steps))
              /\ Len(SelectSeq(f.errors, LAMBDA e : e = "Error in step"))
                    = Len(SelectSeq(f.outputs, LAMBDA o : o = <<>>))
              /\ f.result = Text(Joined(f.outputs))
              /\ f.metrics # NoMetrics
              /\ \E k \in DOMAIN saved : saved[k].metrics = f.metrics

\* the first of two steps failed, the second was still taken, and cot_main
\* returned its text after a save that succeeded
C14_Witness ==
    \E p \in Procs :
        /\ cot[p].pc = "returned"
        /\ Len(cot[p].outputs) = 2
        /\ cot[p].outputs[1] = <<>>
        /\ cot[p].outputs[2] # <<>>
        /\ cot[p].result = Text(cot[p].full_response)
        /\ cot[p].errors = <<"Error in step">>

\* C15: the step indices given to generate_response are exactly
\* 1..stepCount, the marker 'Step i/total' has 1 <= i <= total = stepCount,
\* and the number of steps executed equals the num_steps of the metrics.
C15_StepsMatchCount ==
    \A p \in Procs :
        LET f == cot[p]
        IN (f.pc = "returned" /\ ~PlanningFailed(f)) =>
              /\ f.done = f.metrics.num_steps
              /\ \A k \in 1..f.done :
                    f.outputs[k] # <<>> =>
                        /\ k <= f.num_steps
                        /\ StepMarker(k, f.metrics.num_steps)
                              = SubSeq(f.outputs[k], 1, Len(StepMarker(k, f.metrics.num_steps)))


----------------------------------------------------------------------------
(* Further properties of EnhancedCoT, stated for Spec *)

\* generate_thought_branches has returned or raised in an invocation
AfterGeneration == e_pc \notin {"generating", "joining"}

C17_LateFailureAbsorbed ==
    e_exc \in {"record", "adapt"} =>
        /\ e_pc # "fallback"
        /\ DirectCalls = {}
        /\ e_pc = "idle" => (e_outcome = "returned" /\ e_result = final_response)

\* the scores 0 to 1, in sixtieths
UnitScores == 0..60

\* C18: verify_consistency fails whenever a rating reply is not a number in
\* [0, 1], a number outside the range included; so every score that reaches
\* optimize_response, the mean or the performance log lies in [0, 1].
C18_ScoresInRange ==
    /\ \A k \in DOMAIN consistency_scores : consistency_scores[k] \in UnitScores
    /\ \A k \in DOMAIN performance_history :
          performance_history[k].consistency_score \in UnitScores

\* C19: whatever range 0 <= low <= high <= 1 the instance is constructed
\* with, neither bound of temp_range is ever larger after a step of an
\* invocation than before it.
C19_NeverRaised ==
    [][/\ temp_range'[1] <= temp_range[1]
       /\ temp_range'[2] <= temp_range[2]]_vars

\* C19 (amended): a bound that is at or above its floor (0.1 for low, 0.3
\* for high) is never larger after a step than before it and stays at or
\* above the floor; a bound below its floor either stays or is raised to
\* exactly the floor.
C19_NeverRaisedAboveFloor ==
    [][/\ temp_range[1] >= LowFloor =>
             (temp_range'[1] <= temp_range[1] /\ temp_range'[1] >= LowFloor)
       /\ temp_range[2] >= HighFloor =>
             (temp_range'[2] <= temp_range[2] /\ temp_range'[2] >= HighFloor)
       /\ temp_range[1] < LowFloor => temp_range'[1] \in {temp_range[1], LowFloor}
       /\ temp_range[2] < HighFloor => temp_range'[2] \in {temp_range[2], HighFloor}]_vars

\* an instance of three branches, constructed with (0.1, 0.8), has adapted
\* once: the upper bound went down and the lower one stayed at its floor
C19_Witness ==
    /\ num_branches = DefaultBranches
    /\ temp_range = <<LowFloor, DefaultRange[2] - TempStep>>
    /\ EnoughHistory(performance_history)

\* C20 (stated for SpecFaults): performance_history and temp_range change on
\* the normal path only: an invocation that completes without failure
\* appends exactly one record, before the adaptation and leaving the earlier
\* records as they were; an invocation that takes the except branch leaves
\* both as they were when it started; the log never shrinks.
C20_ChangesOnNormalPathOnly ==
    [][/\ Len(performance_history') >= Len(performance_history)
       /\ performance_history' # performance_history =>
             /\ e_pc = "recording"
             /\ e_pc' = "adapting"
             /\ Len(performance_history') = Len(performance_history) + 1
             /\ SubSeq(performance_history', 1, Len(performance_history))
                   = performance_history
       /\ temp_range' # temp_range =>
             (e_pc = "adapting" /\ e_pc' = "idle" /\ e_exc' = "none")
       /\ (e_pc # "idle" /\ e_pc' = "idle" /\ e_exc' = "none") => e_pc = "adapting"
       /\ e_pc' = "fallback" => e_pc \in {"fallback", "joining", "scoring", "recording"}]_vars

====
